---- MODULE Spec2Model ----
(***************************************************************************)
(* Model of the cricket-data-parser: CricketParser (parser.py),            *)
(* CricketDataTransformer (transformer.py) and OutputGenerator (output.py).*)
(*                                                                         *)
(* Encoding conventions                                                    *)
(*   - A Python value that may be None, and a mapping key that may be      *)
(*     absent, is a sequence of length 0 (None / absent) or 1 (the value). *)
(*   - A Python list is a sequence; a dict whose key order matters (the    *)
(*     extras mapping) is the sequence of its keys in insertion order.     *)
(*   - A function that may raise returns [err |-> name, val |-> result];   *)
(*     err = "" means it returned normally.                                *)
(***************************************************************************)
EXTENDS Integers, Sequences, FiniteSets, TLC

VARIABLES
    info,          \* the "info" section of the source document (input)
    innings,       \* the "innings" list of the source document, as far as iterated
    match_info,    \* _parse_data: match_info (None before _extract_match_info)
    results,       \* _parse_data: results
    innings_results, \* _process_innings: results
    over_results,  \* _process_over: results
    innings_number, \* _parse_data: enumerate(..., 1) index
    batting_team,  \* _process_innings: batting_team
    bowling_team,  \* _process_innings: bowling_team
    over_number,   \* _process_over: over_number
    ball_number,   \* _process_over: ball_number
    legal_deliveries_count, \* _process_over: legal_deliveries_count
    pc,            \* position in CricketParser.write_output / _parse_data
    error,         \* name of the exception that propagated out, "" if none
    records,       \* CricketParser.write_output: records (None until _parse_data returns)
    data,          \* OutputGenerator.write_output: data (None before the call)
    output_dir,    \* os.path.dirname(output_path); None if it is the empty string
    dirs,          \* the directories that exist
    file,          \* content of the file at output_path (None if it does not exist)
    loaded,        \* value returned by OutputGenerator._load_file (None before the call)
    stream,        \* OutputGenerator.write_output: stream
    input_files,   \* process_batch: input_files; a file is its text (OutputGenerator)
                   \* or the document json.load gave (CricketParser, as far as iterated)
    parallel,      \* OutputGenerator.process_batch: parallel
    file_results,  \* per input file: what _load_file / _parse_data ended with (None before)
    order,         \* the input files in the order all_records was extended with them
    all_records,   \* process_batch: all_records
    opens          \* how many times the output file was opened for writing

vars == <<info, innings, match_info, results, innings_results, over_results,
          innings_number, batting_team, bowling_team, over_number, ball_number,
          legal_deliveries_count, pc, error, records, data, output_dir, dirs, file, loaded,
          stream, input_files, parallel, file_results, order, all_records, opens>>

parse_vars == <<info, innings, match_info, results, innings_results, over_results,
                innings_number, batting_team, bowling_team, over_number, ball_number,
                legal_deliveries_count>>

batch_vars == <<input_files, parallel, file_results, order, all_records>>

-----------------------------------------------------------------------------
(* Generic helpers for the encoding. *)

None == <<>>

Some(v) == <<v>>

IsNone(x) == Len(x) = 0

Get(x) == x[1]

Ok(v) == [err |-> "", val |-> v]

Raise(e) == [err |-> e, val |-> None]

\* dict.update: keys of b override keys of a
Update(a, b) ==
    [k \in DOMAIN a \cup DOMAIN b |-> IF k \in DOMAIN b THEN b[k] ELSE a[k]]

RECURSIVE Concat(_)
Concat(ss) == IF Len(ss) = 0 THEN <<>> ELSE Head(ss) \o Concat(Tail(ss))

Contains(s, x) == \E i \in 1..Len(s) : s[i] = x

-----------------------------------------------------------------------------
(* Bounds of the model. *)

MaxInnings == 2

MaxOvers == 2

MaxDeliveries == 2

MaxOverNumber == 0

MaxOverLen == 7

-----------------------------------------------------------------------------
(* parser.py: CricketParser._extract_match_info *)

\* "Women's" in name: an event name is the sequence of its words
HasWomens(name) == Contains(name, "Women's")

\* info.get("event", {}): the empty mapping has no name
EventOf(inf) == IF IsNone(inf.event) THEN [name |-> None] ELSE Get(inf.event)

\* info.get("event", {}).get("name", "")
EventName(inf) == IF IsNone(EventOf(inf).name) THEN <<>> ELSE Get(EventOf(inf).name)

\* variant: the wickets key is inspected before the runs key
OutcomeFieldsWicketsFirst(inf) ==
    IF IsNone(inf.outcome) THEN <<None, None, None>>
    ELSE LET outcome == Get(inf.outcome) IN
         IF IsNone(outcome.winner) THEN <<None, None, None>>
         ELSE IF IsNone(outcome.by) THEN <<outcome.winner, None, None>>
         ELSE LET by_info == Get(outcome.by) IN
              IF ~IsNone(by_info.wickets)
              THEN <<outcome.winner, by_info.wickets, Some("wickets")>>
              ELSE IF ~IsNone(by_info.runs)
                   THEN <<outcome.winner, by_info.runs, Some("runs")>>
                   ELSE <<outcome.winner, None, None>>

\* lines 72-86: <<winner, win_margin, win_margin_type>>
OutcomeFields(inf) ==
    IF IsNone(inf.outcome) THEN <<None, None, None>>
    ELSE LET outcome == Get(inf.outcome) IN
         IF IsNone(outcome.winner) THEN <<None, None, None>>
         ELSE IF IsNone(outcome.by) THEN <<outcome.winner, None, None>>
         ELSE LET by_info == Get(outcome.by) IN
              IF ~IsNone(by_info.runs) THEN <<outcome.winner, by_info.runs, Some("runs")>>
              ELSE IF ~IsNone(by_info.wickets)
                   THEN <<outcome.winner, by_info.wickets, Some("wickets")>>
                   ELSE <<outcome.winner, None, None>>

extract_match_info(inf) ==
    IF IsNone(inf.dates) \/ IsNone(inf.teams) THEN Raise("KeyError")
    ELSE IF Len(Get(inf.dates)) = 0 THEN Raise("IndexError")
    ELSE Ok([match_date      |-> Get(inf.dates)[1],
             match_type      |-> inf.match_type,
             venue           |-> inf.venue,
             city            |-> inf.city,
             teams           |-> Get(inf.teams),
             winner          |-> OutcomeFields(inf)[1],
             win_margin      |-> OutcomeFields(inf)[2],
             win_margin_type |-> OutcomeFields(inf)[3],
             toss_winner     |-> IF IsNone(inf.toss) THEN None ELSE Get(inf.toss).winner,
             toss_decision   |-> IF IsNone(inf.toss) THEN None ELSE Get(inf.toss).decision,
             balls_per_over  |-> IF IsNone(inf.balls_per_over) THEN 6
                                 ELSE Get(inf.balls_per_over),
             gender          |-> IF HasWomens(EventName(inf)) THEN "women" ELSE "men",
             event           |-> EventOf(inf)])

-----------------------------------------------------------------------------
(* parser.py: CricketParser._process_innings, line 130 *)

\* next(team for team in match_info.teams if team != batting_team)
RECURSIVE FirstOther(_, _)
FirstOther(teams, team) ==
    IF Len(teams) = 0 THEN Raise("StopIteration")
    ELSE IF Head(teams) # team THEN Ok(Head(teams))
    ELSE FirstOther(Tail(teams), team)

-----------------------------------------------------------------------------
(* parser.py: CricketParser._process_over, lines 155-159 *)

\* variant: only a wides key makes a delivery illegal
is_legal_wides_only(delivery) ==
    IF ~IsNone(delivery.extras)
    THEN ~Contains(Get(delivery.extras), "wides")
    ELSE TRUE

\* variant: every delivery counts as legal
is_legal_always(delivery) == TRUE

is_legal(delivery) ==
    IF ~IsNone(delivery.extras)
    THEN ~(Contains(Get(delivery.extras), "wides") \/ Contains(Get(delivery.extras), "noball"))
    ELSE TRUE

-----------------------------------------------------------------------------
(* parser.py: CricketParser._process_delivery *)

\* [fielder["name"] for fielder in wicket["fielders"]]
FielderNames(wicket) == IF IsNone(wicket.fielders) THEN <<>> ELSE Get(wicket.fielders)

\* variant: the extras_type reported is the wides or noball key if the mapping
\* has one
process_delivery_illegal_key(delivery, over_no, ball_no, innings_no, batting, bowling) ==
    IF IsNone(delivery.runs) THEN Raise("KeyError")
    ELSE IF ~IsNone(delivery.extras) /\ Len(Get(delivery.extras)) = 0
         THEN Raise("StopIteration")
    ELSE IF ~IsNone(delivery.wickets) /\ Len(Get(delivery.wickets)) = 0
         THEN Raise("IndexError")
    ELSE IF IsNone(delivery.batter) THEN Raise("KeyError")
    ELSE LET runs == Get(delivery.runs)
             has_wicket == ~IsNone(delivery.wickets)
             wicket == Get(delivery.wickets)[1]
         IN Ok([innings_number    |-> innings_no,
                batting_team      |-> batting,
                bowling_team      |-> bowling,
                over_number       |-> over_no,
                ball_number       |-> ball_no,
                batter            |-> Get(delivery.batter),
                non_striker       |-> delivery.non_striker,
                bowler            |-> delivery.bowler,
                runs_batter       |-> runs.batter,
                runs_extras       |-> runs.extras,
                runs_total        |-> runs.total,
                extras_type       |-> IF IsNone(delivery.extras) THEN None
                                      ELSE IF Contains(Get(delivery.extras), "wides")
                                           THEN Some("wides")
                                      ELSE IF Contains(Get(delivery.extras), "noball")
                                           THEN Some("noball")
                                      ELSE Some(Get(delivery.extras)[1]),
                wicket_type       |-> IF has_wicket THEN wicket.kind ELSE None,
                wicket_player_out |-> IF has_wicket THEN Some(wicket.player_out) ELSE None,
                wicket_fielders   |-> IF has_wicket THEN FielderNames(wicket) ELSE <<>>])

process_delivery(delivery, over_no, ball_no, innings_no, batting, bowling) ==
    IF IsNone(delivery.runs) THEN Raise("KeyError")
    ELSE IF ~IsNone(delivery.extras) /\ Len(Get(delivery.extras)) = 0
         THEN Raise("StopIteration")
    ELSE IF ~IsNone(delivery.wickets) /\ Len(Get(delivery.wickets)) = 0
         THEN Raise("IndexError")
    ELSE IF IsNone(delivery.batter) THEN Raise("KeyError")
    ELSE LET runs == Get(delivery.runs)
             has_wicket == ~IsNone(delivery.wickets)
             wicket == Get(delivery.wickets)[1]
         IN Ok([innings_number    |-> innings_no,
                batting_team      |-> batting,
                bowling_team      |-> bowling,
                over_number       |-> over_no,
                ball_number       |-> ball_no,
                batter            |-> Get(delivery.batter),
                non_striker       |-> delivery.non_striker,
                bowler            |-> delivery.bowler,
                runs_batter       |-> runs.batter,
                runs_extras       |-> runs.extras,
                runs_total        |-> runs.total,
                extras_type       |-> IF ~IsNone(delivery.extras)
                                      THEN Some(Get(delivery.extras)[1]) ELSE None,
                wicket_type       |-> IF has_wicket THEN wicket.kind ELSE None,
                wicket_player_out |-> IF has_wicket THEN Some(wicket.player_out) ELSE None,
                wicket_fielders   |-> IF has_wicket THEN FielderNames(wicket) ELSE <<>>])

-----------------------------------------------------------------------------
(* transformer.py: CricketDataTransformer.transform_record *)

\* variant: the runs equality is not asserted
NumericConstraintsNoRuns(record) ==
    /\ record.over_number >= 0
    /\ 1 <= record.ball_number /\ record.ball_number <= record.balls_per_over
    /\ record.innings_number >= 1

\* lines 61-66: the numeric constraints asserted on the merged record
NumericConstraints(record) ==
    /\ record.runs_total = record.runs_batter + record.runs_extras
    /\ record.over_number >= 0
    /\ 1 <= record.ball_number /\ record.ball_number <= record.balls_per_over
    /\ record.innings_number >= 1

\* variant: extras_type is left as the traversal set it
NormalizeExtrasSkipped(record) == record

\* lines 68-70
NormalizeExtras(record) ==
    IF record.runs_extras = 0 THEN [record EXCEPT !.extras_type = None] ELSE record

\* variant: only wicket_player_out is reset
NormalizeWicketPlayerOnly(record) ==
    IF IsNone(record.wicket_type)
    THEN [record EXCEPT !.wicket_player_out = None]
    ELSE record

\* lines 72-74
NormalizeWicket(record) ==
    IF IsNone(record.wicket_type)
    THEN [record EXCEPT !.wicket_player_out = None, !.wicket_fielders = <<>>]
    ELSE record

\* variant: record is the MatchInfo's own mapping, so that update writes to it
DumpAndUpdateShared(minfo, delivery_info) ==
    [match_info |-> Update(minfo, delivery_info),
     record     |-> Update(minfo, delivery_info)]

\* lines 25-28: the two objects after model_dump and update: model_dump builds
\* a new dict of the MatchInfo's fields, update writes to that dict
DumpAndUpdate(minfo, delivery_info) ==
    [match_info |-> minfo,
     record     |-> Update(minfo, delivery_info)]

transform_record(minfo, delivery_info) ==
    LET record == DumpAndUpdate(minfo, delivery_info).record IN
    IF ~NumericConstraints(record) THEN Raise("AssertionError")
    ELSE Ok(NormalizeWicket(NormalizeExtras(record)))

-----------------------------------------------------------------------------
(* The source document as far as the traversal has iterated over it. *)

\* the over the traversal is in
CurrentOver == LET inn == innings[Len(innings)] IN inn.overs[Len(inn.overs)]

AppendInnings(team) == Append(innings, [team |-> team, overs |-> <<>>])

AppendOver(n) ==
    [innings EXCEPT ![Len(innings)].overs = Append(@, [over |-> n, deliveries |-> <<>>])]

AppendDelivery(delivery) ==
    [innings EXCEPT ![Len(innings)].overs =
        [@ EXCEPT ![Len(@)].deliveries = Append(@, delivery)]]

\* the deliveries of one innings / of the document, in document order
OverDeliveries(overs) == Concat([k \in 1..Len(overs) |-> overs[k].deliveries])

\* the overs of the document, in document order
SourceOvers == Concat([i \in 1..Len(innings) |-> innings[i].overs])

SourceDeliveries == Concat([i \in 1..Len(innings) |-> OverDeliveries(innings[i].overs)])

-----------------------------------------------------------------------------
(* CricketParser.write_output -> _parse_data, one action per step. *)

Propagate(e) ==
    /\ pc' = "raised"
    /\ error' = e

\* variant: the output file is opened for writing before the document is parsed
ExtractMatchInfoFileOpened ==
    /\ pc = "extract"
    /\ file' = Some(<<>>)
    /\ LET r == IF IsNone(info) THEN Raise("KeyError") ELSE extract_match_info(Get(info)) IN
       IF r.err # ""
       THEN /\ Propagate(r.err)
            /\ UNCHANGED <<match_info, results>>
       ELSE /\ match_info' = Some(r.val)
            /\ results' = <<>>
            /\ pc' = "innings"
            /\ UNCHANGED error
    /\ UNCHANGED <<info, innings, innings_results, over_results, innings_number,
                   batting_team, bowling_team, over_number, ball_number,
                   legal_deliveries_count, records, data, output_dir, dirs, loaded>>
    /\ UNCHANGED <<stream, batch_vars, opens>>

\* parser.py 56-58: data["info"], _extract_match_info, results = []
ExtractMatchInfo ==
    /\ pc = "extract"
    /\ LET r == IF IsNone(info) THEN Raise("KeyError") ELSE extract_match_info(Get(info)) IN
       IF r.err # ""
       THEN /\ Propagate(r.err)
            /\ UNCHANGED <<match_info, results>>
       ELSE /\ match_info' = Some(r.val)
            /\ results' = <<>>
            /\ pc' = "innings"
            /\ UNCHANGED error
    /\ UNCHANGED <<info, innings, innings_results, over_results, innings_number,
                   batting_team, bowling_team, over_number, ball_number,
                   legal_deliveries_count, records, data, output_dir, dirs,
                   file, loaded>>
    /\ UNCHANGED <<stream, batch_vars, opens>>

\* parser.py 59 (next innings of the loop) and 128-130
ProcessInnings(team) ==
    /\ pc = "innings"
    /\ innings' = AppendInnings(team)
    /\ innings_number' = innings_number + 1
    /\ batting_team' = team
    /\ innings_results' = <<>>
    /\ LET r == FirstOther(Get(match_info).teams, team) IN
       IF r.err # ""
       THEN /\ Propagate(r.err)
            /\ UNCHANGED bowling_team
       ELSE /\ bowling_team' = r.val
            /\ pc' = "overs"
            /\ UNCHANGED error
    /\ UNCHANGED <<info, match_info, results, over_results, over_number, ball_number,
                   legal_deliveries_count, records, data, output_dir, dirs,
                   file, loaded>>
    /\ UNCHANGED <<stream, batch_vars, opens>>

\* variant: the ball counter is set to 1 for the first over only
ProcessOverKeepCounter(n) ==
    /\ pc = "overs"
    /\ innings' = AppendOver(n)
    /\ over_results' = <<>>
    /\ over_number' = n
    /\ ball_number' = IF ball_number = 0 THEN 1 ELSE ball_number
    /\ legal_deliveries_count' = 0
    /\ pc' = "deliveries"
    /\ UNCHANGED <<info, match_info, results, innings_results, innings_number,
                   batting_team, bowling_team, error, records, data, output_dir, dirs,
                   file, loaded>>
    /\ UNCHANGED <<stream, batch_vars, opens>>

\* parser.py 131 (next over of the loop) and 148-152
ProcessOver(n) ==
    /\ pc = "overs"
    /\ innings' = AppendOver(n)
    /\ over_results' = <<>>
    /\ over_number' = n
    /\ ball_number' = 1
    /\ legal_deliveries_count' = 0
    /\ pc' = "deliveries"
    /\ UNCHANGED <<info, match_info, results, innings_results, innings_number,
                   batting_team, bowling_team, error, records, data, output_dir, dirs,
                   file, loaded>>
    /\ UNCHANGED <<stream, batch_vars, opens>>

\* parser.py 153-167: one iteration of the delivery loop
ProcessDelivery(delivery) ==
    /\ pc = "deliveries"
    /\ innings' = AppendDelivery(delivery)
    /\ LET legal == is_legal(delivery)
           di == process_delivery(delivery, over_number, ball_number, innings_number,
                                  batting_team, bowling_team)
           tr == IF di.err # "" THEN di ELSE transform_record(Get(match_info), di.val)
       IN /\ match_info' = IF di.err # "" THEN match_info
                           ELSE Some(DumpAndUpdate(Get(match_info), di.val).match_info)
          /\ IF tr.err # ""
             THEN /\ Propagate(tr.err)
                  /\ UNCHANGED <<over_results, ball_number, legal_deliveries_count>>
             ELSE /\ over_results' = Append(over_results, tr.val)
                  /\ IF legal
                     THEN /\ legal_deliveries_count' = legal_deliveries_count + 1
                          /\ ball_number' = ball_number + 1
                     ELSE UNCHANGED <<ball_number, legal_deliveries_count>>
                  /\ UNCHANGED <<pc, error>>
    /\ UNCHANGED <<info, results, innings_results, innings_number,
                   batting_team, bowling_team, over_number, records, data, output_dir,
                   dirs, file, loaded>>
    /\ UNCHANGED <<stream, batch_vars, opens>>

\* parser.py 169-171 (end of the delivery loop) and 132 (extend)
ProcessOverEnd ==
    /\ pc = "deliveries"
    /\ IF legal_deliveries_count > Get(match_info).balls_per_over
       THEN /\ Propagate("ValueError")
            /\ UNCHANGED innings_results
       ELSE /\ innings_results' = innings_results \o over_results
            /\ pc' = "overs"
            /\ UNCHANGED error
    /\ UNCHANGED <<info, innings, match_info, results, over_results, innings_number,
                   batting_team, bowling_team, over_number, ball_number,
                   legal_deliveries_count, records, data, output_dir, dirs,
                   file, loaded>>
    /\ UNCHANGED <<stream, batch_vars, opens>>

\* variant: the innings' records are put in front of the earlier ones
ProcessInningsEndPrepend ==
    /\ pc = "overs"
    /\ results' = innings_results \o results
    /\ pc' = "innings"
    /\ UNCHANGED <<info, innings, match_info, innings_results, over_results,
                   innings_number, batting_team, bowling_team, over_number, ball_number,
                   legal_deliveries_count, error, records, data, output_dir, dirs,
                   file, loaded>>
    /\ UNCHANGED <<stream, batch_vars, opens>>

\* parser.py 133 (end of the over loop) and 60 (extend)
ProcessInningsEnd ==
    /\ pc = "overs"
    /\ results' = results \o innings_results
    /\ pc' = "innings"
    /\ UNCHANGED <<info, innings, match_info, innings_results, over_results,
                   innings_number, batting_team, bowling_team, over_number, ball_number,
                   legal_deliveries_count, error, records, data, output_dir, dirs,
                   file, loaded>>
    /\ UNCHANGED <<stream, batch_vars, opens>>


-----------------------------------------------------------------------------
(* JSON values and JSON text (the json library as output.py uses it).      *)
(* A text is a sequence of characters; a character is a one-element string *)
(* or an indivisible run of ordinary characters such as "Kuwait" or "35".  *)

JNull == <<"null">>

JInt(n) == <<"int", n>>

JStr(chars) == <<"str", chars>>

JList(items) == <<"list", items>>

\* members: the sequence of <<key characters, value>> in insertion order
JObj(members) == <<"obj", members>>

Kind(v) == v[1]

NL == "\n"

QUOTE == "\""

BACKSLASH == "\\"

SPACE == " "

MaxNumber == 40

Numbers == -1..MaxNumber

\* the library's string escaping of one character
EscapeChar(c) ==
    IF c = NL THEN <<BACKSLASH, "n">>
    ELSE IF c = QUOTE \/ c = BACKSLASH THEN <<BACKSLASH, c>>
    ELSE <<c>>

\* a string without characters to escape is emitted as it is
Escape(chars) ==
    IF \A k \in 1..Len(chars) : chars[k] \notin {NL, QUOTE, BACKSLASH} THEN chars
    ELSE Concat([k \in 1..Len(chars) |-> EscapeChar(chars[k])])

StringLiteral(chars) == <<QUOTE>> \o Escape(chars) \o <<QUOTE>>

\* parts joined by ", "
RECURSIVE JoinComma(_)
JoinComma(parts) ==
    IF Len(parts) = 0 THEN <<>>
    ELSE IF Len(parts) = 1 THEN parts[1]
    ELSE parts[1] \o <<",", SPACE>> \o JoinComma(Tail(parts))

\* json.dump(value, f) with the default separators
RECURSIVE Dumps(_)
Dumps(v) ==
    IF Kind(v) = "null" THEN <<"null">>
    ELSE IF Kind(v) = "int" THEN <<ToString(v[2])>>
    ELSE IF Kind(v) = "str" THEN StringLiteral(v[2])
    ELSE IF Kind(v) = "list"
         THEN <<"[">> \o JoinComma([k \in 1..Len(v[2]) |-> Dumps(v[2][k])]) \o <<"]">>
    ELSE <<"{">> \o JoinComma([k \in 1..Len(v[2]) |->
                      StringLiteral(v[2][k][1]) \o <<":", SPACE>> \o Dumps(v[2][k][2])])
              \o <<"}">>

IsWhitespace(c) == c = SPACE \/ c = NL

RECURSIVE SkipWs(_, _)
SkipWs(t, i) ==
    IF i <= Len(t) /\ IsWhitespace(t[i]) THEN SkipWs(t, i + 1) ELSE i

Parsed(v, next) == [ok |-> TRUE, val |-> v, next |-> next]

ParseFail == [ok |-> FALSE, val |-> JNull, next |-> 0]

IsNumber(c) == \E n \in Numbers : ToString(n) = c

NumberOf(c) == CHOOSE n \in Numbers : ToString(n) = c

\* the characters of a string literal from position i (after the opening quote)
RECURSIVE ParseString(_, _, _)
ParseString(t, i, acc) ==
    IF i > Len(t) THEN ParseFail
    ELSE IF t[i] = QUOTE THEN Parsed(JStr(acc), i + 1)
    ELSE IF t[i] = NL THEN ParseFail
    ELSE IF t[i] = BACKSLASH
         THEN IF i + 1 > Len(t) THEN ParseFail
              ELSE IF t[i + 1] = "n" THEN ParseString(t, i + 2, Append(acc, NL))
              ELSE IF t[i + 1] = QUOTE \/ t[i + 1] = BACKSLASH
                   THEN ParseString(t, i + 2, Append(acc, t[i + 1]))
              ELSE ParseFail
    ELSE ParseString(t, i + 1, Append(acc, t[i]))

RECURSIVE ParseValue(_, _)
RECURSIVE ParseElems(_, _, _, _)
RECURSIVE ParseMembers(_, _, _, _)

ParseValue(t, i) ==
    IF i > Len(t) THEN ParseFail
    ELSE IF t[i] = "{" THEN ParseMembers(t, SkipWs(t, i + 1), <<>>, TRUE)
    ELSE IF t[i] = "[" THEN ParseElems(t, SkipWs(t, i + 1), <<>>, TRUE)
    ELSE IF t[i] = QUOTE THEN ParseString(t, i + 1, <<>>)
    ELSE IF t[i] = "null" THEN Parsed(JNull, i + 1)
    ELSE IF IsNumber(t[i]) THEN Parsed(JInt(NumberOf(t[i])), i + 1)
    ELSE ParseFail

\* the elements of an array from position i; first: no element read yet
ParseElems(t, i, acc, first) ==
    IF i > Len(t) THEN ParseFail
    ELSE IF t[i] = "]" /\ first THEN Parsed(JList(acc), i + 1)
    ELSE LET v == ParseValue(t, i)
             e == SkipWs(t, v.next)
         IN IF ~v.ok \/ e > Len(t) THEN ParseFail
            ELSE IF t[e] = "," THEN ParseElems(t, SkipWs(t, e + 1), Append(acc, v.val), FALSE)
            ELSE IF t[e] = "]" THEN Parsed(JList(Append(acc, v.val)), e + 1)
            ELSE ParseFail

\* the members of an object from position i; first: no member read yet
ParseMembers(t, i, acc, first) ==
    IF i > Len(t) THEN ParseFail
    ELSE IF t[i] = "}" /\ first THEN Parsed(JObj(acc), i + 1)
    ELSE IF t[i] # QUOTE THEN ParseFail
    ELSE LET k == ParseString(t, i + 1, <<>>)
             c == SkipWs(t, k.next)
         IN IF ~k.ok \/ c > Len(t) THEN ParseFail
            ELSE IF t[c] # ":" THEN ParseFail
            ELSE LET v == ParseValue(t, SkipWs(t, c + 1))
                     e == SkipWs(t, v.next)
                     member == <<k.val[2], v.val>>
                 IN IF ~v.ok \/ e > Len(t) THEN ParseFail
                    ELSE IF t[e] = ","
                         THEN ParseMembers(t, SkipWs(t, e + 1), Append(acc, member), FALSE)
                    ELSE IF t[e] = "}" THEN Parsed(JObj(Append(acc, member)), e + 1)
                    ELSE ParseFail

\* json.loads(text) / json.load(f): one value, nothing but whitespace around it
Loads(t) ==
    LET v == ParseValue(t, SkipWs(t, 1)) IN
    IF v.ok /\ SkipWs(t, v.next) > Len(t) THEN [ok |-> TRUE, val |-> v.val]
    ELSE [ok |-> FALSE, val |-> JNull]

\* the lines a text file iterates over, each with its line terminator
RECURSIVE Lines(_, _)
Lines(t, cur) ==
    IF Len(t) = 0 THEN (IF Len(cur) = 0 THEN <<>> ELSE <<cur>>)
    ELSE IF Head(t) = NL THEN <<Append(cur, NL)>> \o Lines(Tail(t), <<>>)
    ELSE Lines(Tail(t), Append(cur, Head(t)))

\* str.strip()
RECURSIVE Strip(_)
Strip(line) ==
    IF Len(line) = 0 THEN line
    ELSE IF IsWhitespace(Head(line)) THEN Strip(Tail(line))
    ELSE IF IsWhitespace(line[Len(line)]) THEN Strip(SubSeq(line, 1, Len(line) - 1))
    ELSE line

-----------------------------------------------------------------------------
(* output.py: OutputGenerator.write_output and OutputGenerator._load_file *)

RECURSIVE WrittenText(_)

\* variant: without the stream flag the records are written as one JSON array
WrittenTextByFlag(recs) ==
    IF stream THEN Concat([k \in 1..Len(recs) |-> Dumps(recs[k]) \o <<NL>>])
    ELSE Dumps(JList(recs))

\* lines 38-41: the text written for data
WrittenText(recs) ==
    IF Len(recs) = 0 THEN <<>>
    ELSE Dumps(Head(recs)) \o <<NL>> \o WrittenText(Tail(recs))

\* variant: the directory check of lines 33-34 is left out, so that mkdir
\* creates the directory
write_output_unchecked(recs, dir, existing, f, streaming) ==
    Ok([dirs |-> IF IsNone(dir) THEN existing ELSE existing \cup {Get(dir)},
        file |-> Some(WrittenText(recs))])

\* lines 32-45: the file system after the call, or the exception; the stream
\* argument is not read
write_output(recs, dir, existing, f, streaming) ==
    IF ~IsNone(dir) /\ Get(dir) \notin existing THEN Raise("Exception")
    ELSE Ok([dirs |-> IF IsNone(dir) THEN existing ELSE existing \cup {Get(dir)},
             file |-> Some(WrittenText(recs))])

RECURSIVE LoadLines(_)

\* variant: the first line that does not parse ends the loading
RECURSIVE LoadLinesUntilMalformed(_)
LoadLinesUntilMalformed(lines) ==
    IF Len(lines) = 0 THEN <<>>
    ELSE LET line == Strip(Head(lines))
             parsed == Loads(line)
         IN IF Len(line) = 0 THEN LoadLinesUntilMalformed(Tail(lines))
            ELSE IF parsed.ok THEN <<parsed.val>> \o LoadLinesUntilMalformed(Tail(lines))
            ELSE <<>>

\* lines 96-104: the records of the lines that parse
LoadLines(lines) ==
    IF Len(lines) = 0 THEN <<>>
    ELSE LET line == Strip(Head(lines))
             parsed == Loads(line)
         IN IF Len(line) # 0 /\ parsed.ok
            THEN <<parsed.val>> \o LoadLines(Tail(lines))
            ELSE LoadLines(Tail(lines))

\* variant: whatever the whole file parses to is returned
load_file_unchecked(f) ==
    IF IsNone(f) THEN Raise("FileNotFoundError")
    ELSE LET whole == Loads(Get(f)) IN
         IF whole.ok /\ Kind(whole.val) \in {"list", "obj"} THEN Ok(whole.val[2])
         ELSE Ok(LoadLines(Lines(Get(f), <<>>)))

\* lines 84-105
load_file(f) ==
    IF IsNone(f) THEN Raise("FileNotFoundError")
    ELSE LET whole == Loads(Get(f)) IN
         IF whole.ok /\ Kind(whole.val) = "list" THEN Ok(whole.val[2])
         ELSE Ok(LoadLines(Lines(Get(f), <<>>)))

-----------------------------------------------------------------------------
(* The flat record of transform_record as the JSON object json.dump sees. *)

Str(s) == JStr(<<s>>)

OptStr(x) == IF IsNone(x) THEN JNull ELSE Str(Get(x))

OptInt(x) == IF IsNone(x) THEN JNull ELSE JInt(Get(x))

StrList(names) == JList([k \in 1..Len(names) |-> Str(names[k])])

EventJson(event) ==
    IF IsNone(event.name) THEN JObj(<<>>)
    ELSE JObj(<< <<(<<"name">>), JStr(Get(event.name))>> >>)

ToJson(record) ==
    JObj(<< <<(<<"match_date">>), Str(record.match_date)>>,
            <<(<<"match_type">>), Str(record.match_type)>>,
            <<(<<"venue">>), Str(record.venue)>>,
            <<(<<"city">>), Str(record.city)>>,
            <<(<<"teams">>), StrList(record.teams)>>,
            <<(<<"winner">>), OptStr(record.winner)>>,
            <<(<<"win_margin">>), OptInt(record.win_margin)>>,
            <<(<<"win_margin_type">>), OptStr(record.win_margin_type)>>,
            <<(<<"toss_winner">>), OptStr(record.toss_winner)>>,
            <<(<<"toss_decision">>), OptStr(record.toss_decision)>>,
            <<(<<"balls_per_over">>), JInt(record.balls_per_over)>>,
            <<(<<"gender">>), Str(record.gender)>>,
            <<(<<"event">>), EventJson(record.event)>>,
            <<(<<"innings_number">>), JInt(record.innings_number)>>,
            <<(<<"batting_team">>), Str(record.batting_team)>>,
            <<(<<"bowling_team">>), Str(record.bowling_team)>>,
            <<(<<"over_number">>), JInt(record.over_number)>>,
            <<(<<"ball_number">>), JInt(record.ball_number)>>,
            <<(<<"batter">>), Str(record.batter)>>,
            <<(<<"non_striker">>), Str(record.non_striker)>>,
            <<(<<"bowler">>), Str(record.bowler)>>,
            <<(<<"runs_batter">>), JInt(record.runs_batter)>>,
            <<(<<"runs_extras">>), JInt(record.runs_extras)>>,
            <<(<<"runs_total">>), JInt(record.runs_total)>>,
            <<(<<"extras_type">>), OptStr(record.extras_type)>>,
            <<(<<"wicket_type">>), OptStr(record.wicket_type)>>,
            <<(<<"wicket_player_out">>), OptStr(record.wicket_player_out)>>,
            <<(<<"wicket_fielders">>), StrList(record.wicket_fielders)>> >>)

ToJsonAll(recs) == [k \in 1..Len(recs) |-> ToJson(recs[k])]

-----------------------------------------------------------------------------
(* CricketParser.write_output after _parse_data; OutputGenerator calls. *)

\* parser.py 61 (end of the innings loop), 231 and the call of 232
ParseDataReturn ==
    /\ pc = "innings"
    /\ records' = Some(results)
    /\ data' = Some(ToJsonAll(results))
    /\ pc' = "write"
    /\ UNCHANGED <<parse_vars, error, output_dir, dirs, file, loaded>>
    /\ UNCHANGED <<stream, batch_vars, opens>>

\* output.py 32-45
WriteOutput ==
    /\ pc = "write"
    /\ LET r == write_output(Get(data), output_dir, dirs, file, stream) IN
       IF r.err # ""
       THEN /\ Propagate(r.err)
            /\ UNCHANGED <<dirs, file, opens>>
       ELSE /\ dirs' = r.val.dirs
            /\ file' = r.val.file
            /\ pc' = "done"
            /\ opens' = opens + 1
            /\ UNCHANGED error
    /\ UNCHANGED <<parse_vars, records, data, output_dir, loaded, stream, batch_vars>>

\* output.py 84-105, on the file write_output wrote
LoadFile ==
    /\ pc = "done"
    /\ LET r == load_file(file) IN
       IF r.err # ""
       THEN /\ Propagate(r.err)
            /\ UNCHANGED loaded
       ELSE /\ loaded' = Some(r.val)
            /\ pc' = "loaded"
            /\ UNCHANGED error
    /\ UNCHANGED <<parse_vars, records, data, output_dir, dirs, file>>
    /\ UNCHANGED <<stream, batch_vars, opens>>

-----------------------------------------------------------------------------
(* output.py: OutputGenerator.process_batch. The main thread is at pc       *)
(* "batch" while it collects the files; the worker tasks of the parallel    *)
(* mode are the input files whose file_results entry is still None.         *)

\* the number of the input files that all_records was extended with
Collected == Len(order)

\* the i-th entry of file_results becomes r
SetResult(i, r) == [file_results EXCEPT ![i] = Some(r)]

\* variant: the list of a file is put in front of the records collected so far
ExtendFront(recs, i) ==
    /\ all_records' = recs \o all_records
    /\ order' = Append(order, i)

\* all_records.extend(...) with the list of input file i
Extend(recs, i) ==
    /\ all_records' = all_records \o recs
    /\ order' = Append(order, i)

\* lines 61-62: a worker of the pool runs _load_file on input file i
LoadTask(i) ==
    /\ parallel
    /\ pc \in {"batch", "shutdown"}
    /\ IsNone(file_results[i])
    /\ file_results' = SetResult(i, load_file(input_files[i]))
    /\ UNCHANGED <<parse_vars, pc, error, records, data, output_dir, dirs, file, loaded,
                   stream, input_files, parallel, order, all_records, opens>>

\* variant: as_completed may yield a finished future again
AsCompletedAgain(i) ==
    /\ parallel
    /\ pc = "batch"
    /\ ~IsNone(file_results[i])
    /\ Collected < Len(input_files)
    /\ LET r == Get(file_results[i]) IN
       IF r.err # ""
       THEN /\ error' = r.err
            /\ pc' = "shutdown"
            /\ UNCHANGED <<order, all_records>>
       ELSE /\ Extend(r.val, i)
            /\ UNCHANGED <<pc, error>>
    /\ UNCHANGED <<parse_vars, records, data, output_dir, dirs, file, loaded,
                   stream, input_files, parallel, file_results, opens>>

\* lines 63-64: as_completed yields a finished future that it has not yielded
\* yet; future.result() returns the list or raises what _load_file raised
AsCompleted(i) ==
    /\ parallel
    /\ pc = "batch"
    /\ ~IsNone(file_results[i])
    /\ \A k \in 1..Len(order) : order[k] # i
    /\ LET r == Get(file_results[i]) IN
       IF r.err # ""
       THEN /\ error' = r.err
            /\ pc' = "shutdown"
            /\ UNCHANGED <<order, all_records>>
       ELSE /\ Extend(r.val, i)
            /\ UNCHANGED <<pc, error>>
    /\ UNCHANGED <<parse_vars, records, data, output_dir, dirs, file, loaded,
                   stream, input_files, parallel, file_results, opens>>

\* line 61: leaving the with block waits for the tasks still running; then
\* the exception leaves process_batch (70-72)
ExecutorShutdown ==
    /\ pc = "shutdown"
    /\ \A i \in 1..Len(file_results) : ~IsNone(file_results[i])
    /\ pc' = "raised"
    /\ UNCHANGED <<parse_vars, error, records, data, output_dir, dirs, file, loaded,
                   stream, batch_vars, opens>>

\* variant: a file that cannot be loaded is left out of the batch
LoadNextSkipFailed ==
    /\ ~parallel
    /\ pc = "batch"
    /\ Collected < Len(input_files)
    /\ LET i == Collected + 1
           r == load_file(input_files[i])
       IN /\ file_results' = SetResult(i, r)
          /\ Extend(IF r.err # "" THEN <<>> ELSE r.val, i)
          /\ UNCHANGED <<pc, error>>
    /\ UNCHANGED <<parse_vars, records, data, output_dir, dirs, file, loaded,
                   stream, input_files, parallel, opens>>

\* lines 66-67: one iteration of the loop of the non-parallel mode
LoadNext ==
    /\ ~parallel
    /\ pc = "batch"
    /\ Collected < Len(input_files)
    /\ LET i == Collected + 1
           r == load_file(input_files[i])
       IN /\ file_results' = SetResult(i, r)
          /\ IF r.err # ""
             THEN /\ Propagate(r.err)
                  /\ UNCHANGED <<order, all_records>>
             ELSE /\ Extend(r.val, i)
                  /\ UNCHANGED <<pc, error>>
    /\ UNCHANGED <<parse_vars, records, data, output_dir, dirs, file, loaded,
                   stream, input_files, parallel, opens>>

\* line 68: every file is collected, write_output is called with all_records
BatchWrite ==
    /\ pc = "batch"
    /\ Collected = Len(input_files)
    /\ data' = Some(all_records)
    /\ pc' = "write"
    /\ UNCHANGED <<parse_vars, error, records, output_dir, dirs, file, loaded,
                   stream, batch_vars, opens>>

-----------------------------------------------------------------------------
(* parser.py: CricketParser.process_batch. The main thread is at pc         *)
(* "next_file" between two input files; input_files and file_results grow   *)
(* as the loop iterates. The records are kept as the JSON objects json.dump *)
(* sees.                                                                    *)

MaxFiles == 3

\* lines 242-245: open the next input file, json.load, call _parse_data
\* (match_info keeps the MatchInfo of the previous document until
\* _extract_match_info has returned for this one)
BatchOpen(doc) ==
    /\ pc = "next_file"
    /\ Len(input_files) < MaxFiles
    /\ IF IsNone(doc)
       THEN /\ input_files' = Append(input_files, None)
            /\ file_results' = Append(file_results, Some(Raise("FileNotFoundError")))
            /\ Propagate("FileNotFoundError")
            /\ UNCHANGED parse_vars
       ELSE /\ info' = Get(doc).info
            /\ innings' = <<>>
            /\ results' = <<>>
            /\ innings_results' = <<>>
            /\ over_results' = <<>>
            /\ innings_number' = 0
            /\ batting_team' = ""
            /\ bowling_team' = ""
            /\ over_number' = 0
            /\ ball_number' = 0
            /\ legal_deliveries_count' = 0
            /\ pc' = "extract"
            /\ UNCHANGED <<match_info, error, input_files, file_results>>
    /\ UNCHANGED <<records, data, output_dir, dirs, file, loaded, stream, parallel,
                   order, all_records, opens>>

\* parser.py 61 (end of the innings loop) and 245: all_records.extend
BatchExtend ==
    /\ pc = "innings"
    /\ input_files' = Append(input_files, Some([info |-> info, innings |-> innings]))
    /\ file_results' = Append(file_results, Some(Ok(ToJsonAll(results))))
    /\ Extend(ToJsonAll(results), Collected + 1)
    /\ pc' = "next_file"
    /\ UNCHANGED <<parse_vars, error, records, data, output_dir, dirs, file, loaded,
                   stream, parallel, opens>>

\* line 246: the loop is over, write_output is called with all_records
ParserBatchWrite ==
    /\ pc = "next_file"
    /\ data' = Some(all_records)
    /\ pc' = "write"
    /\ UNCHANGED <<parse_vars, error, records, output_dir, dirs, file, loaded,
                   stream, batch_vars, opens>>

-----------------------------------------------------------------------------
(* Inputs: source documents. *)

\* innings["team"] of the source innings
BattingTeams == {"Kuwait", "Nepal"}

OverNumbers == -1..MaxOverNumber

SampleOutcome ==
    [winner |-> Some("Kuwait"), by |-> Some([runs |-> Some(35), wickets |-> None])]

SampleInfo ==
    [dates          |-> Some(<<"2025-05-12">>),
     match_type     |-> "T20",
     venue          |-> "Terdthai Cricket Ground",
     city           |-> "Bangkok",
     teams          |-> Some(<<"Kuwait", "Bhutan">>),
     outcome        |-> Some(SampleOutcome),
     toss           |-> Some([winner |-> Some("Bhutan"), decision |-> Some("field")]),
     balls_per_over |-> None,
     event          |-> None]

\* info sections for the traversal: they differ in balls_per_over, teams and
\* the required keys; None is a document without an "info" key
TraversalInfos ==
    {Some([SampleInfo EXCEPT !.balls_per_over = Some(1)])}
    \cup {Some([SampleInfo EXCEPT !.teams = t, !.balls_per_over = Some(2)]) :
            t \in {Some(<<"Kuwait">>), Some(<<"Kuwait", "Bhutan", "Nepal">>), None}}
    \cup {Some([SampleInfo EXCEPT !.dates = d]) : d \in {None, Some(<<>>)}}
    \cup {None}

Runs(b, e, t) == Some([batter |-> b, extras |-> e, total |-> t])

Wicket(kind, fielders) ==
    Some(<<[kind |-> kind, player_out |-> "Priyada Murali", fielders |-> fielders]>>)

PlainDelivery ==
    [batter      |-> Some("Priyada Murali"),
     non_striker |-> "Zeefa Jilani",
     bowler      |-> "A Gurung",
     runs        |-> Runs(0, 0, 0),
     extras      |-> None,
     wickets     |-> None]

WideDelivery == [PlainDelivery EXCEPT !.runs = Runs(0, 1, 1), !.extras = Some(<<"wides">>)]

NoBallDelivery == [PlainDelivery EXCEPT !.runs = Runs(0, 1, 1), !.extras = Some(<<"noball">>)]

\* deliveries that differ in runs, extras mapping and wickets list
Deliveries ==
    {PlainDelivery, WideDelivery,
     [PlainDelivery EXCEPT !.runs = Runs(0, 1, 1), !.extras = Some(<<"legbyes">>)],
     [PlainDelivery EXCEPT !.runs = Runs(0, 2, 2), !.extras = Some(<<"legbyes", "noball">>)],
     [PlainDelivery EXCEPT !.runs = Runs(0, 0, 0), !.extras = Some(<<"wides">>)],
     [PlainDelivery EXCEPT !.runs = Runs(0, 1, 1)],
     [PlainDelivery EXCEPT !.runs = Runs(1, 0, 2)],
     [PlainDelivery EXCEPT !.runs = None],
     [PlainDelivery EXCEPT !.extras = Some(<<>>)],
     [PlainDelivery EXCEPT !.batter = None],
     [PlainDelivery EXCEPT !.wickets = Some(<<>>)],
     [PlainDelivery EXCEPT !.wickets = Wicket(Some("bowled"), None)],
     [PlainDelivery EXCEPT !.runs = Runs(1, 0, 1),
                           !.wickets = Wicket(Some("run out"), Some(<<"A Gurung">>))],
     [PlainDelivery EXCEPT !.wickets = Wicket(None, Some(<<"A Gurung">>))]}

\* the content of a file that exists before the run
OldText == <<"old", NL>>

-----------------------------------------------------------------------------
(* Specification of CricketParser.write_output(data, output_path). *)

InitLocals ==
    /\ innings = <<>>
    /\ match_info = None
    /\ results = <<>>
    /\ innings_results = <<>>
    /\ over_results = <<>>
    /\ innings_number = 0
    /\ batting_team = ""
    /\ bowling_team = ""
    /\ over_number = 0
    /\ ball_number = 0
    /\ legal_deliveries_count = 0
    /\ error = ""
    /\ records = None
    /\ loaded = None
    /\ opens = 0

\* no batch is being processed
InitNoBatch ==
    /\ input_files = <<>>
    /\ parallel = FALSE
    /\ file_results = <<>>
    /\ order = <<>>
    /\ all_records = <<>>

Init ==
    /\ InitLocals
    /\ InitNoBatch
    /\ stream = FALSE
    /\ info \in TraversalInfos
    /\ pc = "extract"
    /\ data = None
    /\ output_dir = Some("out")
    /\ dirs = {"out"}
    /\ file \in {None, Some(OldText)}

NextInnings == \E team \in BattingTeams : Len(innings) < MaxInnings /\ ProcessInnings(team)

NextOver ==
    \E n \in OverNumbers :
        /\ Len(SourceOvers) < MaxOvers
        /\ ProcessOver(n)

NextDelivery ==
    \E delivery \in Deliveries :
        Len(SourceDeliveries) < MaxDeliveries /\ ProcessDelivery(delivery)

Next ==
    \/ ExtractMatchInfo
    \/ NextInnings
    \/ NextOver
    \/ NextDelivery
    \/ ProcessOverEnd
    \/ ProcessInningsEnd
    \/ ParseDataReturn
    \/ WriteOutput

Spec == Init /\ [][Next]_vars

-----------------------------------------------------------------------------
(* Specification of one over of a match with the default balls_per_over.   *)

OverKinds == {PlainDelivery, WideDelivery, NoBallDelivery}

InitSingleOver ==
    /\ InitLocals
    /\ InitNoBatch
    /\ stream = FALSE
    /\ info = Some(SampleInfo)
    /\ pc = "extract"
    /\ data = None
    /\ output_dir = Some("out")
    /\ dirs = {"out"}
    /\ file = None

FirstInnings == Len(innings) < 1 /\ ProcessInnings("Kuwait")

FirstOver ==
    /\ pc = "overs"
    /\ Len(innings[Len(innings)].overs) < 1
    /\ ProcessOver(0)

OverDelivery ==
    \E delivery \in OverKinds :
        /\ pc = "deliveries"
        /\ Len(CurrentOver.deliveries) < MaxOverLen
        /\ ProcessDelivery(delivery)

NextSingleOver ==
    \/ ExtractMatchInfo
    \/ FirstInnings
    \/ FirstOver
    \/ OverDelivery
    \/ ProcessOverEnd
    \/ ProcessInningsEnd
    \/ ParseDataReturn
    \/ WriteOutput

SpecSingleOver == InitSingleOver /\ [][NextSingleOver]_vars

-----------------------------------------------------------------------------
(* Specification of one short over whose deliveries carry extras mappings   *)
(* with one or several keys.                                                *)

MaxExtrasOverLen == 3

Extras(keys, e) == [PlainDelivery EXCEPT !.runs = Runs(0, e, e), !.extras = Some(keys)]

ExtrasKinds ==
    {PlainDelivery,
     Extras(<<"wides">>, 1),
     Extras(<<"legbyes", "noball">>, 2),
     Extras(<<"noball", "byes">>, 2),
     Extras(<<"byes", "legbyes">>, 2),
     Extras(<<"byes", "wides">>, 0)}

ExtrasDelivery ==
    \E delivery \in ExtrasKinds :
        /\ pc = "deliveries"
        /\ Len(CurrentOver.deliveries) < MaxExtrasOverLen
        /\ ProcessDelivery(delivery)

NextExtras ==
    \/ ExtractMatchInfo
    \/ FirstInnings
    \/ FirstOver
    \/ ExtrasDelivery
    \/ ProcessOverEnd
    \/ ProcessInningsEnd
    \/ ParseDataReturn
    \/ WriteOutput

SpecExtras == InitSingleOver /\ [][NextExtras]_vars

-----------------------------------------------------------------------------
(* Specification of the match-level fields: info sections that differ in   *)
(* outcome, toss and event, each with a short innings.                     *)

ByMappings == [runs : {None, Some(35)}, wickets : {None, Some(3)}]

Outcomes ==
    {None} \cup {Some(o) : o \in [winner : {None, Some("Kuwait")},
                                  by : {None} \cup {Some(b) : b \in ByMappings}]}

Tosses == {None, Some([winner |-> Some("Bhutan"), decision |-> Some("field")]),
           Some([winner |-> None, decision |-> None])}

Events == {None, Some([name |-> None]),
           Some([name |-> Some(<<"Women's", SPACE, "T20">>)]),
           Some([name |-> Some(<<"T20", SPACE, "Cup">>)])}

MatchInfos ==
    {[SampleInfo EXCEPT !.outcome = o, !.toss = t, !.event = e] :
        o \in Outcomes, t \in Tosses, e \in Events}

InitMatchInfo ==
    /\ InitLocals
    /\ InitNoBatch
    /\ stream = FALSE
    /\ info \in {Some(i) : i \in MatchInfos}
    /\ pc = "extract"
    /\ data = None
    /\ output_dir = Some("out")
    /\ dirs = {"out"}
    /\ file = None

ShortDelivery ==
    /\ pc = "deliveries"
    /\ Len(CurrentOver.deliveries) < MaxDeliveries
    /\ ProcessDelivery(PlainDelivery)

NextMatchInfo ==
    \/ ExtractMatchInfo
    \/ FirstInnings
    \/ FirstOver
    \/ ShortDelivery
    \/ ProcessOverEnd
    \/ ProcessInningsEnd
    \/ ParseDataReturn
    \/ WriteOutput

SpecMatchInfo == InitMatchInfo /\ [][NextMatchInfo]_vars

-----------------------------------------------------------------------------
(* Specification of OutputGenerator.write_output followed by _load_file.   *)

MaxRecords == 2

FlatValues ==
    {JNull, JInt(0), JInt(35), JStr(<<>>), JStr(<<"a">>), JStr(<<"a", NL, "b">>),
     JStr(<<QUOTE>>), JStr(<<BACKSLASH, "n">>), JStr(<<SPACE>>), JStr(<<"{", "}">>),
     JStr(<<"null">>), JStr(<<"35">>), JList(<<>>), JList(<<JStr(<<"a">>), JStr(<<NL>>)>>),
     JObj(<<>>), JObj(<< <<(<<"name">>), JStr(<<"a">>)>> >>)}

FlatRecords ==
    {JObj(<<>>)}
    \cup {JObj(<< <<(<<"k">>), v>> >>) : v \in FlatValues}
    \cup {JObj(<< <<(<<"k", NL>>), JInt(0)>>, <<(<<"j">>), v>> >>) :
            v \in {JNull, JStr(<<NL>>), JList(<<JInt(0), JInt(35)>>)}}

\* os.path.dirname(output_path): none, an existing or a missing directory
OutputDirs == {None, Some("out"), Some("missing")}

RecordLists == UNION {[1..n -> FlatRecords] : n \in 0..MaxRecords}

InitRoundTrip ==
    /\ InitLocals
    /\ InitNoBatch
    /\ info = None
    /\ pc = "write"
    /\ data \in {Some(d) : d \in RecordLists}
    /\ stream \in BOOLEAN
    /\ output_dir \in OutputDirs
    /\ dirs = {"out"}
    /\ file \in {None, Some(OldText)}

NextRoundTrip ==
    \/ WriteOutput
    \/ LoadFile

SpecRoundTrip == InitRoundTrip /\ [][NextRoundTrip]_vars

-----------------------------------------------------------------------------
(* Specification of batch processing: OutputGenerator.process_batch over    *)
(* input files given by their text, and CricketParser.process_batch over    *)
(* source documents with one short innings.                                 *)

RecordA == JObj(<< <<(<<"id">>), JInt(1)>> >>)

RecordB == JObj(<< <<(<<"id">>), JInt(2)>> >>)

RecordC == JObj(<< <<(<<"id">>), JInt(3)>>, <<(<<"batter">>), JStr(<<"A", SPACE, "Gurung">>)>> >>)

\* one record per line
LinesText == Dumps(RecordA) \o <<NL>> \o Dumps(RecordB) \o <<NL>>

\* a JSON array over several lines
ArrayText == <<"[", NL, SPACE, SPACE>> \o Dumps(RecordC) \o <<NL, "]", NL>>

\* one record per line with a line that is no JSON, a blank line and no final
\* line break
MalformedText ==
    Dumps(RecordA) \o <<NL, "{", "oops", NL, SPACE, NL>> \o Dumps(RecordC)

\* a JSON object over several lines
ObjectText == <<"{", NL>> \o StringLiteral(<<"id">>) \o <<":", SPACE, "1", NL, "}", NL>>

\* the content of an input file; None is a path without a file
InputTexts == {None, Some(<<>>), Some(LinesText), Some(ArrayText), Some(MalformedText),
               Some(ObjectText)}

InputFileLists == UNION {[1..n -> InputTexts] : n \in 0..MaxFiles}

\* the info sections of the documents of a batch; None is a document without
\* an "info" key
BatchInfos == {Some(SampleInfo), Some([SampleInfo EXCEPT !.venue = "Bayuemas Oval"])}

\* what json.load gives for an input file, as far as line 56 reads it; None is
\* a path without a file
BatchDocuments == {None} \cup {Some([info |-> i]) : i \in BatchInfos \cup {None}}

InitOutputBatch ==
    /\ InitLocals
    /\ info = None
    /\ pc = "batch"
    /\ data = None
    /\ stream = FALSE
    /\ output_dir = Some("out")
    /\ dirs = {"out"}
    /\ file \in {None, Some(OldText)}
    /\ input_files \in InputFileLists
    /\ parallel \in BOOLEAN
    /\ file_results = [i \in 1..Len(input_files) |-> None]
    /\ order = <<>>
    /\ all_records = <<>>

InitParserBatch ==
    /\ InitLocals
    /\ InitNoBatch
    /\ info = None
    /\ pc = "next_file"
    /\ data = None
    /\ stream = FALSE
    /\ output_dir = Some("out")
    /\ dirs = {"out"}
    /\ file \in {None, Some(OldText)}

InitBatch == InitOutputBatch \/ InitParserBatch

NextFile == \E doc \in BatchDocuments : BatchOpen(doc)

NextTask == \E i \in 1..Len(input_files) : LoadTask(i)

NextCompleted == \E i \in 1..Len(input_files) : AsCompleted(i)

NextBatch ==
    \/ NextTask
    \/ NextCompleted
    \/ ExecutorShutdown
    \/ LoadNext
    \/ BatchWrite
    \/ NextFile
    \/ ExtractMatchInfo
    \/ FirstInnings
    \/ FirstOver
    \/ ShortDelivery
    \/ ProcessOverEnd
    \/ ProcessInningsEnd
    \/ BatchExtend
    \/ ParserBatchWrite
    \/ WriteOutput

SpecBatch == InitBatch /\ [][NextBatch]_vars

-----------------------------------------------------------------------------
(* Properties. *)

Range(seq) == {seq[k] : k \in 1..Len(seq)}

\* every flat record transform_record has returned so far
ProducedRecords ==
    Range(results) \cup Range(innings_results) \cup Range(over_results)
    \cup (IF IsNone(records) THEN {} ELSE Range(Get(records)))

\* _parse_data has returned its list
Returned == ~IsNone(records)

TagOver(i, o) ==
    LET over == innings[i].overs[o] IN
    [k \in 1..Len(over.deliveries) |->
        [inn |-> i, ov |-> o, team |-> innings[i].team, over |-> over.over,
         delivery |-> over.deliveries[k]]]

TagInnings(i) == Concat([o \in 1..Len(innings[i].overs) |-> TagOver(i, o)])

\* the source deliveries in document order, each with its place in the document
SourceTags == Concat([i \in 1..Len(innings) |-> TagInnings(i)])

\* a wide or a no-ball, read off the source delivery
IsWideOrNoBall(delivery) ==
    /\ ~IsNone(delivery.extras)
    /\ \E k \in 1..Len(Get(delivery.extras)) : Get(delivery.extras)[k] \in {"wides", "noball"}

SourceRunsAddUp(delivery) ==
    /\ ~IsNone(delivery.runs)
    /\ Get(delivery.runs).total = Get(delivery.runs).batter + Get(delivery.runs).extras

\* C1: every record produced satisfies runs_total = runs_batter + runs_extras, and
\* a list is returned only if the runs of every source delivery add up.
C1_RunsAddUp ==
    /\ \A r \in ProducedRecords : r.runs_total = r.runs_batter + r.runs_extras
    /\ Returned => \A k \in 1..Len(SourceDeliveries) : SourceRunsAddUp(SourceDeliveries[k])

\* a list with two records was returned, one of them with extras
C1_Witness ==
    /\ Returned
    /\ Len(Get(records)) = 2
    /\ \E r \in Range(Get(records)) : r.runs_extras > 0 /\ r.runs_total = 2

\* the ball numbers of consecutive records of one over: equal after a wide or
\* no-ball, one more after any other delivery
BallNumbersFollow(recs, deliveries) ==
    \A k \in 1..(Len(recs) - 1) :
        recs[k + 1].ball_number =
            recs[k].ball_number + (IF IsWideOrNoBall(deliveries[k]) THEN 0 ELSE 1)

\* C2: every record has 1 <= ball_number <= balls_per_over, and within one over
\* the ball_number stays after a wide or no-ball and advances by one after a
\* legal delivery, for the over being processed and in the returned list.
C2_BallNumber ==
    /\ \A r \in ProducedRecords : 1 <= r.ball_number /\ r.ball_number <= r.balls_per_over
    /\ pc = "deliveries" => BallNumbersFollow(over_results, CurrentOver.deliveries)
    /\ Returned =>
         /\ Len(Get(records)) = Len(SourceTags)
         /\ \A k \in 1..(Len(SourceTags) - 1) :
              (SourceTags[k].inn = SourceTags[k + 1].inn
               /\ SourceTags[k].ov = SourceTags[k + 1].ov)
              => Get(records)[k + 1].ball_number =
                   Get(records)[k].ball_number
                   + (IF IsWideOrNoBall(SourceTags[k].delivery) THEN 0 ELSE 1)

\* a returned over in which a no-ball is followed by another delivery
C2_Witness ==
    /\ Returned
    /\ Len(Get(records)) = 2
    /\ SourceTags[1].ov = SourceTags[2].ov /\ SourceTags[1].inn = SourceTags[2].inn
    /\ ~IsNone(SourceTags[1].delivery.extras)
    /\ Contains(Get(SourceTags[1].delivery.extras), "noball")
    /\ Get(records)[2].ball_number = 1

HasWides(delivery) == ~IsNone(delivery.extras) /\ Contains(Get(delivery.extras), "wides")

NoExtras(delivery) == IsNone(delivery.extras)

\* the over being processed consists of two wides followed by four deliveries
\* without extras
TwoWidesFourLegal ==
    /\ Len(innings) = 1 /\ Len(innings[1].overs) = 1
    /\ Len(CurrentOver.deliveries) = 6
    /\ \A k \in 1..2 : HasWides(CurrentOver.deliveries[k])
    /\ \A k \in 3..6 : NoExtras(CurrentOver.deliveries[k])

BallNumbers(recs) == [k \in 1..Len(recs) |-> recs[k].ball_number]

\* C3 as stated: with balls_per_over = 6, an over of two wides followed by four
\* legal balls yields six records with ball numbers 1,1,2,3,4,5.
C3_AsStated ==
    (TwoWidesFourLegal /\ Get(match_info).balls_per_over = 6) =>
        /\ error = ""
        /\ BallNumbers(over_results) = <<1, 1, 2, 3, 4, 5>>

\* C3: with balls_per_over = 6, an over of two wides followed by four legal
\* balls yields six records with ball numbers 1,1,1,2,3,4 (the first legal ball
\* still carries the number the wides repeated), and that is the list
\* _process_over returns.
C3_TwoWides ==
    (TwoWidesFourLegal /\ Get(match_info).balls_per_over = 6) =>
        /\ error = ""
        /\ BallNumbers(over_results) = <<1, 1, 1, 2, 3, 4>>
        /\ pc # "deliveries" => innings_results = over_results

\* _process_over has returned for such an over
C3_Witness ==
    /\ TwoWidesFourLegal
    /\ pc = "overs"
    /\ Len(innings_results) = 6

\* the number of deliveries of a source over that are neither wide nor no-ball
RECURSIVE LegalCount(_)
LegalCount(deliveries) ==
    IF Len(deliveries) = 0 THEN 0
    ELSE (IF IsWideOrNoBall(Head(deliveries)) THEN 0 ELSE 1) + LegalCount(Tail(deliveries))

\* C4 as stated: with balls_per_over = 6, processing an over that has 7 legal deliveries
\* ends with the over-overflow error (the ValueError of the end-of-over check)
\* and with no other error.
C4_AsStated ==
    (/\ Len(innings) = 1 /\ Len(innings[1].overs) = 1
     /\ Get(match_info).balls_per_over = 6
     /\ LegalCount(CurrentOver.deliveries) = 7)
    => error \in {"", "ValueError"}

\* C5: every record with runs_extras = 0 has extras_type null.
C5_ExtrasTypeNull ==
    \A r \in ProducedRecords : r.runs_extras = 0 => IsNone(r.extras_type)

\* a record was returned for a delivery that has an extras mapping and
\* runs.extras = 0
C5_Witness ==
    /\ Returned
    /\ \E k \in 1..Len(Get(records)) :
         /\ ~IsNone(SourceDeliveries[k].extras)
         /\ Get(SourceDeliveries[k].runs).extras = 0
         /\ Get(records)[k].runs_extras = 0

\* C6: every record with wicket_type null has wicket_player_out null and
\* wicket_fielders empty.
C6_WicketNull ==
    \A r \in ProducedRecords :
        IsNone(r.wicket_type) => IsNone(r.wicket_player_out) /\ r.wicket_fielders = <<>>

\* a record was returned for a delivery whose wicket has no kind but names a
\* player and a fielder
C6_Witness ==
    /\ Returned
    /\ \E k \in 1..Len(Get(records)) :
         /\ ~IsNone(SourceDeliveries[k].wickets)
         /\ IsNone(Get(SourceDeliveries[k].wickets)[1].kind)
         /\ ~IsNone(Get(SourceDeliveries[k].wickets)[1].fielders)
         /\ IsNone(Get(records)[k].wicket_type)

\* the record is the one made from the tagged source delivery
RecordOf(rec, tag) ==
    /\ rec.innings_number = tag.inn
    /\ rec.batting_team = tag.team
    /\ rec.over_number = tag.over
    /\ rec.batter = Get(tag.delivery.batter)
    /\ rec.runs_batter = Get(tag.delivery.runs).batter
    /\ rec.runs_extras = Get(tag.delivery.runs).extras
    /\ rec.runs_total = Get(tag.delivery.runs).total
    /\ IsNone(rec.wicket_type) =
         (IsNone(tag.delivery.wickets) \/ IsNone(Get(tag.delivery.wickets)[1].kind))

\* C7: the returned list has exactly one record per source delivery, in document
\* order (innings, then overs, then deliveries), and each record's
\* innings_number is the 1-based position of its innings.
C7_DocumentOrder ==
    Returned =>
        /\ Len(Get(records)) = Len(SourceTags)
        /\ \A k \in 1..Len(SourceTags) : RecordOf(Get(records)[k], SourceTags[k])

\* a list was returned for a document with two non-empty innings whose
\* deliveries differ, with innings numbers {1, 2}
C7_Witness ==
    /\ Returned
    /\ Len(innings) = 2
    /\ Len(OverDeliveries(innings[1].overs)) = 1
    /\ Len(OverDeliveries(innings[2].overs)) = 1
    /\ SourceDeliveries[1] # SourceDeliveries[2]
    /\ {r.innings_number : r \in Range(Get(records))} = {1, 2}

\* C8: when an error propagates out of _parse_data no record list is returned
\* and nothing is handed to the writer, and the output file changes only in a
\* step that ends without error after the list was returned.
C8_NoPartialOutput ==
    /\ [](error # "" => (IsNone(records) /\ IsNone(data)))
    /\ [][file' # file => (error' = "" /\ ~IsNone(records'))]_vars

\* a delivery failed after a valid delivery of the same over had produced a
\* record, with an output file present before the run
C8_Witness ==
    /\ pc = "raised"
    /\ Len(over_results) = 1
    /\ Len(CurrentOver.deliveries) = 2
    /\ file = Some(OldText)

\* the match-level result fields agree with the outcome of the info section,
\* where by is inspected whether or not winner is present
MarginFromBy(m, outcome) ==
    LET by == Get(outcome.by) IN
    IF ~IsNone(by.runs) THEN m.win_margin_type = Some("runs") /\ m.win_margin = by.runs
    ELSE IF ~IsNone(by.wickets)
         THEN m.win_margin_type = Some("wickets") /\ m.win_margin = by.wickets
         ELSE IsNone(m.win_margin_type) /\ IsNone(m.win_margin)

MatchLevel == (IF IsNone(match_info) THEN {} ELSE {Get(match_info)}) \cup ProducedRecords

HasOutcomeBy == ~IsNone(Get(info).outcome) /\ ~IsNone(Get(Get(info).outcome).by)

\* C9 as stated: whenever outcome.by is present the margin fields follow its
\* runs key, else its wickets key, else are null.
C9_AsStated ==
    HasOutcomeBy => \A m \in MatchLevel : MarginFromBy(m, Get(Get(info).outcome))

\* C9: whenever outcome.winner and outcome.by are both present the margin
\* fields follow the runs key of by, else its wickets key, else are null; when
\* outcome.winner is absent, winner and both margin fields are null; the sample
\* outcome gives winner Kuwait, margin 35, type runs on every record.
C9_WinMargin ==
    /\ (HasOutcomeBy /\ ~IsNone(Get(Get(info).outcome).winner)) =>
          \A m \in MatchLevel :
              /\ MarginFromBy(m, Get(Get(info).outcome))
              /\ m.winner = Get(Get(info).outcome).winner
    /\ (~IsNone(Get(info).outcome) /\ IsNone(Get(Get(info).outcome).winner)) =>
          \A m \in MatchLevel :
              IsNone(m.winner) /\ IsNone(m.win_margin) /\ IsNone(m.win_margin_type)
    /\ Get(info).outcome = Some(SampleOutcome) =>
          \A m \in MatchLevel :
              /\ m.winner = Some("Kuwait")
              /\ m.win_margin = Some(35)
              /\ m.win_margin_type = Some("runs")

\* two records were returned for a document whose outcome.by has both a runs
\* and a wickets key
C9_Witness ==
    /\ Returned
    /\ Len(Get(records)) = 2
    /\ Get(info).outcome =
         Some([winner |-> Some("Kuwait"), by |-> Some([runs |-> Some(35), wickets |-> Some(3)])])
    /\ \A r \in Range(Get(records)) : r.win_margin_type = Some("runs")

\* C10: the records _load_file returns for the file write_output wrote are the
\* records written, in the same order.
C10_RoundTrip ==
    pc = "loaded" => Get(loaded) = Get(data)

\* a single record with a line break in a string was written and loaded
C10_Witness ==
    /\ pc = "loaded"
    /\ Len(Get(data)) = 1
    /\ Get(data)[1] = JObj(<< <<(<<"k">>), JStr(<<"a", NL, "b">>)>> >>)
    /\ Len(Get(loaded)) = 1

-----------------------------------------------------------------------------
(* Properties of batch processing. *)

\* the file_results entries are all set
AllLoaded == \A i \in 1..Len(file_results) : ~IsNone(file_results[i])

\* the list each input file yielded, in the order the files were given
PerFileLists == [i \in 1..Len(file_results) |-> Get(file_results[i]).val]

RECURSIVE SumLen(_)
SumLen(lists) == IF Len(lists) = 0 THEN 0 ELSE Len(Head(lists)) + SumLen(Tail(lists))

\* CricketParser.process_batch has parsed a document (OutputGenerator's batch
\* never builds a MatchInfo)
ParserBatch == ~IsNone(match_info)

\* the deliveries of a source document, in document order
DocDeliveries(doc) == Concat([i \in 1..Len(doc.innings) |-> OverDeliveries(doc.innings[i].overs)])

ThreeIdentical ==
    /\ Len(input_files) = 3
    /\ input_files[1] = input_files[2]
    /\ input_files[2] = input_files[3]

\* write_output has been called with the records of the batch
BatchCollected == pc \in {"write", "done"}

\* C11: in non-parallel batch processing, what is handed to the writer and
\* written is the concatenation of the per-file record lists in the order the
\* input files were given; its length is the sum of the per-file counts, and
\* three times the single-file count for three identical files.
C11_BatchOrder ==
    (~parallel /\ BatchCollected) =>
        /\ Len(file_results) = Len(input_files)
        /\ AllLoaded
        /\ \A i \in 1..Len(file_results) : Get(file_results[i]).err = ""
        /\ order = [i \in 1..Len(input_files) |-> i]
        /\ Get(data) = Concat(PerFileLists)
        /\ Len(Get(data)) = SumLen(PerFileLists)
        /\ ThreeIdentical => Len(Get(data)) = 3 * Len(PerFileLists[1])
        /\ ParserBatch =>
             \A i \in 1..Len(input_files) :
                 Len(PerFileLists[i]) = Len(DocDeliveries(Get(input_files[i])))
        /\ ~ParserBatch =>
             \A i \in 1..Len(input_files) :
                 PerFileLists[i] = load_file(input_files[i]).val
        /\ pc = "done" => file = Some(WrittenText(Concat(PerFileLists)))

\* CricketParser.process_batch has written the six records of three identical
\* documents of two deliveries each
C11_Witness ==
    /\ ~parallel
    /\ pc = "done"
    /\ ParserBatch
    /\ ThreeIdentical
    /\ Len(PerFileLists[1]) = 2
    /\ Len(Get(data)) = 6
    /\ file = Some(WrittenText(Get(data)))

\* the orders in which n files can be taken
FileOrders(n) ==
    {p \in [1..n -> 1..n] : \A a, b \in 1..n : p[a] = p[b] => a = b}

\* the lists _load_file returns for the input files, taken in the order p
LoadedInOrder(p) == Concat([k \in 1..Len(p) |-> load_file(input_files[p[k]]).val])

\* C12: in parallel batch processing, under every interleaving of the worker
\* tasks, what is collected, handed to the writer and written is the
\* concatenation of the complete per-file lists in some permutation of the
\* input files (the order in which the futures were yielded).
C12_ParallelPermutation ==
    /\ (parallel /\ pc = "batch") => all_records = LoadedInOrder(order)
    /\ (parallel /\ BatchCollected) =>
          /\ order \in FileOrders(Len(input_files))
          /\ Get(data) = LoadedInOrder(order)
          /\ \E p \in FileOrders(Len(input_files)) : Get(data) = LoadedInOrder(p)
          /\ pc = "done" => file = Some(WrittenText(LoadedInOrder(order)))

\* three different files were written in an order that starts with the last
\* file, which differs from the written sequence of the input order
C12_Witness ==
    /\ parallel
    /\ pc = "done"
    /\ Len(input_files) = 3
    /\ order[1] = 3
    /\ \A i \in 1..3 : Len(load_file(input_files[i]).val) > 0
    /\ Get(data) # LoadedInOrder(<<1, 2, 3>>)
    /\ file = Some(WrittenText(Get(data)))

\* loading one of the input files has raised
SomeFailed ==
    \E i \in 1..Len(file_results) :
        ~IsNone(file_results[i]) /\ Get(file_results[i]).err # ""

\* every input file has been loaded and none has raised
AllSucceeded ==
    /\ Len(file_results) = Len(input_files)
    /\ \A i \in 1..Len(file_results) :
         ~IsNone(file_results[i]) /\ Get(file_results[i]).err = ""

\* C13: in process_batch (parallel or not) the destination file is opened for
\* writing at most once and only after every input file has been loaded
\* successfully, and it changes only by being opened; once loading an input
\* file has raised, the destination is never opened and stays as it was, and
\* the batch cannot return: it is still collecting, or raising (in the
\* non-parallel mode it has raised at once).
C13_WriteOnce ==
    /\ [](opens <= 1)
    /\ [][opens' # opens => (AllSucceeded /\ opens' = opens + 1)]_vars
    /\ [][file' # file => opens' # opens]_vars
    /\ [](SomeFailed => (opens = 0 /\ pc \in {"batch", "shutdown", "raised"}))
    /\ []((SomeFailed /\ ~parallel) => (pc = "raised" /\ error # ""))
    /\ []((SomeFailed /\ pc \in {"shutdown", "raised"}) => error # "")

\* a parallel batch has raised because of its second file after the records
\* of another file were collected, and the destination file is the old one
C13_Witness ==
    /\ parallel
    /\ pc = "raised"
    /\ Len(input_files) = 3
    /\ Get(file_results[2]).err = "FileNotFoundError"
    /\ Len(all_records) > 0
    /\ opens = 0
    /\ file = Some(OldText)

-----------------------------------------------------------------------------
(* Properties of OutputGenerator.write_output and _load_file. *)

\* the output path has a directory component and that directory does not exist
ParentMissing == ~IsNone(output_dir) /\ Get(output_dir) \notin dirs

\* C14: write_output with an output path whose parent directory does not exist
\* raises without creating a directory and without creating, truncating or
\* opening the file; when the path has no directory component or the
\* directory exists, the call writes the file and raises nothing.
C14_MissingParent ==
    /\ [][(pc = "write" /\ ParentMissing) =>
            (/\ pc' = "raised"
             /\ error' = "Exception"
             /\ dirs' = dirs
             /\ file' = file
             /\ opens' = opens)]_vars
    /\ [][(pc = "write" /\ ~ParentMissing) =>
            (/\ pc' = "done"
             /\ error' = ""
             /\ dirs' = dirs
             /\ opens' = opens + 1
             /\ file' = Some(WrittenText(Get(data))))]_vars

\* the call has raised for a missing directory with records to write, and the
\* file of an earlier run is still there
C14_Witness ==
    /\ pc = "raised"
    /\ error = "Exception"
    /\ output_dir = Some("missing")
    /\ "missing" \notin dirs
    /\ Len(Get(data)) > 0
    /\ file = Some(OldText)

\* the text is one JSON array holding the records
IsArrayText(text, recs) == Loads(text).ok /\ Loads(text).val = JList(recs)

\* the text has one line per record: the record's JSON text and a line break
IsLineDelimited(text, recs) ==
    LET lines == Lines(text, <<>>) IN
    /\ Len(lines) = Len(recs)
    /\ \A k \in 1..Len(recs) : lines[k] = Dumps(recs[k]) \o <<NL>>

\* the text write_output writes for the records at hand when called with
\* stream = mode
TextFor(mode) == Get(write_output(Get(data), None, dirs, file, mode).val.file)

\* C15 as stated: for the records written, one value of the flag makes
\* write_output produce a single JSON array and the other one newline-delimited
\* JSON.
C15_AsStated ==
    pc = "done" =>
        \E mode \in BOOLEAN :
            /\ IsArrayText(TextFor(mode), Get(data))
            /\ IsLineDelimited(TextFor(~mode), Get(data))

\* C15: whatever the value of the stream flag, write_output produces
\* newline-delimited JSON with one record per line, never a JSON array; the
\* flag does not change what is written.
C15_AlwaysLines ==
    pc = "done" =>
        /\ IsLineDelimited(Get(file), Get(data))
        /\ ~IsArrayText(Get(file), Get(data))
        /\ TextFor(TRUE) = TextFor(FALSE)

\* two records were written with stream = FALSE
C15_Witness ==
    /\ pc = "done"
    /\ ~stream
    /\ Len(Get(data)) = 2
    /\ Len(Lines(Get(file), <<>>)) = 2

\* _load_file reads the text line by line: the text as a whole is not a JSON
\* array
LineMode(text) == ~(Loads(text).ok /\ Kind(Loads(text).val) = "list")

\* the numbers of the lines of the text that are not blank and parse as JSON
ParseableLines(text) ==
    LET lines == Lines(text, <<>>) IN
    {k \in 1..Len(lines) : Len(Strip(lines[k])) > 0 /\ Loads(Strip(lines[k])).ok}

\* the j-th smallest member of a set of numbers
Nth(S, j) == CHOOSE k \in S : Cardinality({m \in S : m < k}) = j - 1

\* the values of the parseable lines, in file order
ParsedLines(text) ==
    LET lines == Lines(text, <<>>)
        S == ParseableLines(text)
    IN [j \in 1..Cardinality(S) |-> Loads(Strip(lines[Nth(S, j)])).val]

\* C16: when _load_file reads an existing file line by line, it raises nothing
\* and returns exactly the parsed values of the non-blank lines that parse as
\* JSON, in file order; a line that does not parse is skipped.
C16_SkipMalformed ==
    ~ParserBatch =>
        \A i \in 1..Len(file_results) :
            (/\ ~IsNone(file_results[i])
             /\ ~IsNone(input_files[i])
             /\ LineMode(Get(input_files[i])))
            => /\ Get(file_results[i]).err = ""
               /\ Get(file_results[i]).val = ParsedLines(Get(input_files[i]))

\* a file with a malformed line between two records was loaded and its two
\* records were written
C16_Witness ==
    /\ ~ParserBatch
    /\ pc = "done"
    /\ Len(input_files) = 1
    /\ input_files[1] = Some(MalformedText)
    /\ Cardinality(ParseableLines(MalformedText)) < Len(Lines(MalformedText, <<>>)) - 1
    /\ Get(file_results[1]).val = <<RecordA, RecordC>>
    /\ Get(data) = <<RecordA, RecordC>>

-----------------------------------------------------------------------------
(* Further properties of the traversal. *)

\* the deliveries that precede the k-th delivery of the document in its over
PrecedingInOver(k) ==
    LET tag == SourceTags[k]
        over == innings[tag.inn].overs[tag.ov].deliveries
        first == CHOOSE j \in 1..k :
                    /\ SourceTags[j].inn = tag.inn /\ SourceTags[j].ov = tag.ov
                    /\ \A m \in 1..(j - 1) :
                         SourceTags[m].inn # tag.inn \/ SourceTags[m].ov # tag.ov
    IN SubSeq(over, 1, k - first)

\* C17: the ball counter is local to the over: the ball_number passed to the
\* transformer for a delivery is 1 + the number of the deliveries before it in
\* the same over that are neither wide nor no-ball, in any over of any innings,
\* both while the over is processed and in the returned list.
C17_CounterPerOver ==
    /\ pc = "deliveries" =>
          /\ ball_number = 1 + LegalCount(CurrentOver.deliveries)
          /\ \A k \in 1..Len(over_results) :
               over_results[k].ball_number =
                   1 + LegalCount(SubSeq(CurrentOver.deliveries, 1, k - 1))
    /\ Returned =>
          \A k \in 1..Len(Get(records)) :
              Get(records)[k].ball_number = 1 + LegalCount(PrecedingInOver(k))

\* a list was returned for an innings of two overs, each with one delivery,
\* the first of them legal: both records have ball_number 1
C17_Witness ==
    /\ Returned
    /\ Len(Get(records)) = 2
    /\ SourceTags[1].inn = SourceTags[2].inn
    /\ SourceTags[1].ov # SourceTags[2].ov
    /\ ~IsWideOrNoBall(SourceTags[1].delivery)
    /\ Get(records)[1].ball_number = 1
    /\ Get(records)[2].ball_number = 1

\* C18 as stated: an over of valid deliveries of which at most balls_per_over
\* are legal (neither wide nor no-ball), with wides and no-balls at any
\* positions, is processed without error.
C18_AsStated ==
    (/\ pc \in {"deliveries", "overs", "raised"}
     /\ Len(innings) = 1 /\ Len(innings[1].overs) = 1
     /\ LegalCount(CurrentOver.deliveries) <= Get(match_info).balls_per_over)
    => error = ""

\* C19 as stated: every returned record with runs_extras > 0 has an extras_type
\* that is set and is one of the keys of the extras mapping of its source
\* delivery.
C19_AsStated ==
    Returned =>
        \A k \in 1..Len(Get(records)) :
            Get(records)[k].runs_extras > 0 =>
                /\ ~IsNone(Get(records)[k].extras_type)
                /\ ~IsNone(SourceDeliveries[k].extras)
                /\ Contains(Get(SourceDeliveries[k].extras), Get(Get(records)[k].extras_type))

\* teams consists of exactly the batting team plus one other team
BattingPlusOne(teams, team) ==
    /\ Len(teams) = 2
    /\ team \in Range(teams)
    /\ teams[1] # teams[2]

\* C20 as stated: processing an innings goes on only if teams consists of the
\* innings' batting team plus one other team, and every record produced has
\* batting_team # bowling_team with both in teams.
C20_AsStated ==
    /\ pc \in {"overs", "deliveries"} =>
          BattingPlusOne(Get(match_info).teams, batting_team)
    /\ \A r \in ProducedRecords :
          /\ r.batting_team # r.bowling_team
          /\ r.batting_team \in Range(r.teams)
          /\ r.bowling_team \in Range(r.teams)

\* the fields of MatchInfo
MatchFields ==
    {"match_date", "match_type", "venue", "city", "teams", "winner", "win_margin",
     "win_margin_type", "toss_winner", "toss_decision", "balls_per_over", "gender",
     "event"}

\* C21: once constructed, the MatchInfo of a document never changes and holds
\* nothing but its own fields; every record produced carries the MatchInfo's
\* value in every match-level field (so all records of the document agree on
\* them); and a record, once produced, is not changed by producing and
\* normalising later records.
C21_MatchInfoImmutable ==
    /\ [][~IsNone(match_info) => match_info' = match_info]_vars
    /\ [](~IsNone(match_info) => DOMAIN Get(match_info) = MatchFields)
    /\ [](\A r \in ProducedRecords : \A f \in MatchFields : r[f] = Get(match_info)[f])
    /\ [][ProducedRecords \subseteq ProducedRecords']_vars

\* two different records were returned, the first of them from a delivery
\* whose wicket fields the normalisation reset, and match_info is as
\* _extract_match_info built it
C21_Witness ==
    /\ Returned
    /\ Len(Get(records)) = 2
    /\ Get(records)[1] # Get(records)[2]
    /\ ~IsNone(SourceDeliveries[1].wickets)
    /\ IsNone(Get(records)[1].wicket_player_out)
    /\ match_info = Some(extract_match_info(Get(info)).val)

\* the keys of the extras mapping of a delivery that has one
ExtrasKeys(delivery) == Get(delivery.extras)

\* C22: legality and extras_type are derived independently. For every delivery
\* of the over with an extras mapping (of one or several keys): the ball
\* counter stays and the legal count is not incremented iff any key is wides or
\* noball, and the extras_type reported is the first key of the mapping (null
\* when runs_extras = 0), whatever the other keys are.
C22_LegalityIndependent ==
    pc = "deliveries" =>
        /\ legal_deliveries_count = LegalCount(CurrentOver.deliveries)
        /\ \A k \in 1..Len(over_results) :
             LET delivery == CurrentOver.deliveries[k]
                 record == over_results[k]
                 next_ball == IF k < Len(over_results) THEN over_results[k + 1].ball_number
                              ELSE ball_number
                 illegal == \E key \in Range(ExtrasKeys(delivery)) : key \in {"wides", "noball"}
             IN ~IsNone(delivery.extras) =>
                  /\ illegal <=> next_ball = record.ball_number
                  /\ ~illegal <=> next_ball = record.ball_number + 1
                  /\ illegal <=>
                       LegalCount(SubSeq(CurrentOver.deliveries, 1, k)) =
                       LegalCount(SubSeq(CurrentOver.deliveries, 1, k - 1))
                  /\ record.extras_type =
                       IF record.runs_extras > 0 THEN Some(ExtrasKeys(delivery)[1]) ELSE None

\* a record with extras_type legbyes, made from a delivery whose second extras
\* key is noball, is followed by a record with the same ball_number
C22_Witness ==
    /\ pc = "deliveries"
    /\ Len(over_results) = 2
    /\ CurrentOver.deliveries[1].extras = Some(<<"legbyes", "noball">>)
    /\ over_results[1].extras_type = Some("legbyes")
    /\ over_results[2].ball_number = over_results[1].ball_number
    /\ legal_deliveries_count = LegalCount(<<CurrentOver.deliveries[2]>>)

====
